---- MODULE Spec2Model ----
(***************************************************************************)
(* A model of clustering_launcher.cpp: the launcher of a real-time task    *)
(* schedule.  The launcher process checks that the schedule (.rtps) file   *)
(* is up to date, regenerating it with an external scheduler when it is    *)
(* not, parses it, initializes a single-use barrier and forks and execs    *)
(* one process per task; it then reaps its children.                       *)
(*                                                                         *)
(* Processes: the launcher, the scheduler child and one child per task.    *)
(* All of them share the launcher's process group (nothing in the code     *)
(* changes it), and none of them installs a handler for, ignores or        *)
(* blocks SIGTERM (the code never calls signal, sigaction or sigprocmask), *)
(* so SIGTERM's action is the default one: it terminates the process.      *)
(* kill(0, SIGTERM) generates the signal for every process of the group,   *)
(* the caller included; the caller's own signal is delivered before kill   *)
(* returns, the others' asynchronously.                                    *)
(*                                                                         *)
(* Text is modelled as sequences of one-character strings, so that         *)
(* getline, operator>> and the unsigned conversion are computed and not    *)
(* assumed.  `unsigned` values are 32 bits wide, held as two 16-bit limbs. *)
(***************************************************************************)
EXTENDS Integers, Sequences, FiniteSets, TLC

(***************************************************************************)
(* Bounds of the model.                                                    *)
(***************************************************************************)
MaxTasks == 2
MaxMtime == 2

(***************************************************************************)
(* enum rt_gomp_clustering_launcher_error_codes                            *)
(***************************************************************************)
RT_GOMP_CLUSTERING_LAUNCHER_SUCCESS == 0
RT_GOMP_CLUSTERING_LAUNCHER_FILE_OPEN_ERROR == 1
RT_GOMP_CLUSTERING_LAUNCHER_FILE_PARSE_ERROR == 2
RT_GOMP_CLUSTERING_LAUNCHER_UNSCHEDULABLE_ERROR == 3
RT_GOMP_CLUSTERING_LAUNCHER_FORK_EXECV_ERROR == 4
RT_GOMP_CLUSTERING_LAUNCHER_BARRIER_INITIALIZATION_ERROR == 5
RT_GOMP_CLUSTERING_LAUNCHER_ARGUMENT_ERROR == 6

(***************************************************************************)
(* The constants main defines.                                             *)
(***************************************************************************)
num_timing_params == 11
num_skipped_timing_params == 4
num_partition_params == 3
barrier_name ==
  << "R", "T", "_", "G", "O", "M", "P", "_", "C", "L", "U", "S", "T", "E",
     "R", "I", "N", "G", "_", "B", "A", "R", "R", "I", "E", "R" >>

(***************************************************************************)
(* unsigned: 32 bits, as [hi, lo] with value hi * 2^16 + lo.               *)
(***************************************************************************)
Limb == 65536

ToU32(n) == [hi |-> (n \div Limb) % Limb, lo |-> n % Limb]

U32Sub(a, b) ==
  LET borrow == IF a.lo < b.lo THEN 1 ELSE 0
  IN  [hi |-> (a.hi - b.hi - borrow + 2 * Limb) % Limb,
       lo |-> (a.lo - b.lo + Limb) % Limb]

U32Div(a, d) ==
  LET r == a.hi % d
  IN  [hi |-> a.hi \div d, lo |-> (r * Limb + a.lo) \div d]

U32Mod(a, d) == ((a.hi % d) * Limb + a.lo) % d

U32Le(a, b) == a.hi < b.hi \/ (a.hi = b.hi /\ a.lo <= b.lo)

U32Neg(a) == U32Sub(ToU32(0), a)

(***************************************************************************)
(* std::getline over the file's characters: the lines read until getline   *)
(* fails.  A last line without its newline is still a line; nothing after  *)
(* the last newline is not.                                                *)
(***************************************************************************)
RECURSIVE UpToNewline(_)
UpToNewline(s) ==
  IF s = << >> \/ Head(s) = "\n" THEN << >>
  ELSE << Head(s) >> \o UpToNewline(Tail(s))

RECURSIVE GetLines(_)
GetLines(s) ==
  IF s = << >> THEN << >>
  ELSE LET l == UpToNewline(s)
           rest == IF Len(l) < Len(s) THEN SubSeq(s, Len(l) + 2, Len(s)) ELSE << >>
       IN  << l >> \o GetLines(rest)

(***************************************************************************)
(* operator>>(std::istream &, std::string &): skip white space, take the   *)
(* characters up to the next white space; fails when nothing is left.      *)
(***************************************************************************)
IsSpace(c) == c \in {" ", "\t"}

RECURSIVE SkipWs(_)
SkipWs(s) == IF s # << >> /\ IsSpace(Head(s)) THEN SkipWs(Tail(s)) ELSE s

RECURSIVE TakeWord(_)
TakeWord(s) ==
  IF s = << >> \/ IsSpace(Head(s)) THEN << >>
  ELSE << Head(s) >> \o TakeWord(Tail(s))

ExtractString(s) ==
  LET r == SkipWs(s)
      w == TakeWord(r)
  IN  [ok |-> w # << >>, tok |-> w, rest |-> SubSeq(r, Len(w) + 1, Len(r))]

\* n successive extractions, stopping at the first that fails
RECURSIVE ExtractN(_, _)
ExtractN(s, n) ==
  IF n = 0 THEN [ok |-> TRUE, toks |-> << >>, rest |-> s]
  ELSE LET e == ExtractString(s)
       IN  IF ~e.ok THEN [ok |-> FALSE, toks |-> << >>, rest |-> e.rest]
           ELSE LET r == ExtractN(e.rest, n - 1)
                IN  [ok |-> r.ok, toks |-> << e.tok >> \o r.toks, rest |-> r.rest]

\* while (task_command_stream >> task_arg) push_back(task_arg)
RECURSIVE ExtractAll(_)
ExtractAll(s) ==
  LET e == ExtractString(s)
  IN  IF e.ok THEN << e.tok >> \o ExtractAll(e.rest) ELSE << >>

(***************************************************************************)
(* operator>>(std::istream &, unsigned &): skip white space, an optional   *)
(* sign, then decimal digits up to the first other character.  No digit:   *)
(* failure.  A value past 2^32 - 1: failure.  A minus sign negates the     *)
(* value modulo 2^32.                                                      *)
(***************************************************************************)
Digits == << "0", "1", "2", "3", "4", "5", "6", "7", "8", "9" >>
IsDigit(c) == \E i \in 1..10 : Digits[i] = c
DigitVal(c) == (CHOOSE i \in 1..10 : Digits[i] = c) - 1

RECURSIVE TakeDigits(_)
TakeDigits(s) ==
  IF s = << >> \/ ~IsDigit(Head(s)) THEN << >>
  ELSE << Head(s) >> \o TakeDigits(Tail(s))

\* acc * 10 + d over the digits; over is set once the value leaves 32 bits
RECURSIVE Accumulate(_, _)
Accumulate(ds, acc) ==
  IF ds = << >> THEN acc
  ELSE LET lo10 == acc.lo * 10 + DigitVal(Head(ds))
           hi10 == acc.hi * 10 + (lo10 \div Limb)
       IN  Accumulate(Tail(ds),
                      [hi |-> hi10 % Limb, lo |-> lo10 % Limb,
                       over |-> acc.over \/ hi10 >= Limb])

ExtractUnsigned(s) ==
  LET r == SkipWs(s)
      signed == r # << >> /\ Head(r) \in {"+", "-"}
      negative == r # << >> /\ Head(r) = "-"
      ds == TakeDigits(IF signed THEN Tail(r) ELSE r)
      v == Accumulate(ds, [hi |-> 0, lo |-> 0, over |-> FALSE])
      u == [hi |-> v.hi, lo |-> v.lo]
  IN  [ok |-> ds # << >> /\ ~v.over,
       val |-> IF negative THEN U32Neg(u) ELSE u]

(***************************************************************************)
(* The schedule (.rtps) files the model is run on.  A file is described by *)
(* its shape and rendered to characters; the launcher reads the            *)
(* characters.                                                             *)
(*   head    how many of the two header lines are present                  *)
(*   verdict the characters of line 1                                      *)
(*   shapes  per task, the number of tokens on its command, timing and     *)
(*           partition line                                                *)
(*   extra   empty lines after the last task                               *)
(*   eol     whether the last line ends with a newline                     *)
(***************************************************************************)
ProgramPath(k) == << "w", Digits[k + 1] >>
TaskArg(j) == << "-", Digits[j + 1] >>
TimingToken(i) == << Digits[3 + (i \div 10)], Digits[1 + (i % 10)] >>
PartitionToken(j) == << "p", Digits[j + 1] >>
CoreRangeLine == << "0", "-", "3" >>

RECURSIVE JoinWith(_, _)
JoinWith(seqs, sep) ==
  IF seqs = << >> THEN << >>
  ELSE IF Len(seqs) = 1 THEN seqs[1]
  ELSE seqs[1] \o sep \o JoinWith(Tail(seqs), sep)

CommandLine(k, n) ==
  JoinWith([j \in 1..n |-> IF j = 1 THEN ProgramPath(k) ELSE TaskArg(j - 1)],
           << " ", " " >>)
TimingLine(n) == JoinWith([i \in 1..n |-> TimingToken(i - 1)], << " " >>)
PartitionLine(n) ==
  << " " >> \o JoinWith([j \in 1..n |-> PartitionToken(j - 1)], << "\t" >>)

RECURSIVE TaskLines(_, _)
TaskLines(shapes, k) ==
  IF k > Len(shapes) THEN << >>
  ELSE << CommandLine(k, shapes[k].cmd), TimingLine(shapes[k].timing),
          PartitionLine(shapes[k].part) >> \o TaskLines(shapes, k + 1)

FileLines(d) ==
  SubSeq(<< d.verdict, CoreRangeLine >>, 1, d.head)
    \o TaskLines(d.shapes, 1)
    \o [i \in 1..d.extra |-> << >>]

Render(d) ==
  LET ls == FileLines(d)
  IN  JoinWith(ls, << "\n" >>) \o (IF d.eol /\ ls # << >> THEN << "\n" >> ELSE << >>)

GoodShape(k) == [cmd |-> 1 + (k % 3), timing |-> num_timing_params,
                 part |-> num_partition_params]
BadShapes(k) ==
  { [GoodShape(k) EXCEPT !.cmd = 0],
    [GoodShape(k) EXCEPT !.timing = num_timing_params - 1],
    [GoodShape(k) EXCEPT !.timing = num_timing_params + 1],
    [GoodShape(k) EXCEPT !.part = num_partition_params - 1],
    [GoodShape(k) EXCEPT !.part = num_partition_params + 1] }

LaunchVerdicts == { << "0" >>, << "1" >> }
StopVerdicts ==
  { << "2" >>, << " ", "2" >>, << "-", "1" >>, << "x" >>, << >>, << "7", "x" >>,
    << "4", "2", "9", "4", "9", "6", "7", "2", "9", "5" >>,
    << "4", "2", "9", "4", "9", "6", "7", "2", "9", "6" >> }

File(head, v, shapes, extra, eol) ==
  [head |-> head, verdict |-> v, shapes |-> shapes, extra |-> extra, eol |-> eol]

\* well-formed bodies of 0..MaxTasks tasks, under every verdict line
ValidBodies ==
  { File(2, v, [k \in 1..n |-> GoodShape(k)], 0, TRUE) :
      v \in LaunchVerdicts \cup StopVerdicts, n \in 0..MaxTasks }
\* one malformed record, at task k of n
OneBadRecord ==
  UNION { UNION { { File(2, << "0" >>,
                         [i \in 1..n |-> IF i = k THEN b ELSE GoodShape(i)],
                         0, TRUE) : b \in BadShapes(k) } :
                  k \in 1..n } : n \in 1..MaxTasks }
\* line counts that are not 2 + 3N, and a last line without its newline
OddLineCounts ==
  { File(0, << "0" >>, << >>, 0, TRUE), File(1, << "0" >>, << >>, 0, TRUE),
    File(1, << "0" >>, << >>, 0, FALSE) }
    \cup { File(2, << "0" >>, [k \in 1..n |-> GoodShape(k)], e, TRUE) :
             n \in 0..1, e \in 1..2 }
    \cup { File(2, << "0" >>, [k \in 1..1 |-> GoodShape(k)], 0, FALSE),
           File(2, << "0" >>, << >>, 3, TRUE) }

Files == ValidBodies \cup OneBadRecord \cup OddLineCounts

(***************************************************************************)
(* State.                                                                  *)
(*   argc           main's argument count                                  *)
(*   taskset        the .rtpt file: [exists, mtime]                        *)
(*   schedule_file  the .rtps file: [exists, mtime, content]               *)
(*   pc             where the launcher is in main                          *)
(*   stat           the results of the two stat calls                      *)
(*   num_lines, num_tasks, t, ifs   main's locals; ifs is the number of    *)
(*                  lines read from the stream since the last seekg        *)
(*   exit           how the launcher ended: [how, code]                    *)
(*   sigL           SIGTERM is pending for the launcher                    *)
(*   diag           the launcher's last line on stderr                     *)
(*   child          the launcher's children, 0 the scheduler's, k > 0 task *)
(*                  k's: [st, sig, code, argv]; argv is the copy of the    *)
(*                  program name and argument vector a forked child holds  *)
(*                  until its image is replaced or it ends                 *)
(*   barrier        the single-use barrier: [inited, count, joined,        *)
(*                  released, inits]; inits counts the initializations     *)
(*   execv_call     per task, the child's execv call: its arguments and    *)
(*                  whether it returned (failed)                           *)
(*   broadcasts     kill(0, SIGTERM) calls made so far                     *)
(*   attempts       fork() calls made in the task loop                     *)
(***************************************************************************)
VARIABLES argc, taskset, schedule_file, pc, stat, num_lines, num_tasks, t, ifs,
          exit, sigL, diag, child, barrier, execv_call, broadcasts, attempts

vars == << argc, taskset, schedule_file, pc, stat, num_lines, num_tasks, t, ifs,
           exit, sigL, diag, child, barrier, execv_call, broadcasts, attempts >>

SchedulerChild == 0
Tasks == 1..MaxTasks
Children == {SchedulerChild} \cup Tasks

NoCode == -1
NoChild == [st |-> "none", sig |-> FALSE, code |-> NoCode, argv |-> << >>]
NoCall == [called |-> FALSE, failed |-> FALSE, path |-> << >>, argv |-> << >>]
EmptyFile == File(0, << >>, << >>, 0, FALSE)

Alive(c) == c.st \in {"forked", "running", "joined", "passed"}
LauncherAlive == exit.how = "alive"

Init ==
  /\ argc \in 1..3
  /\ taskset \in [exists : {TRUE}, mtime : 1..MaxMtime]
                   \cup {[exists |-> FALSE, mtime |-> 0]}
  /\ schedule_file \in [exists : {TRUE}, mtime : 1..MaxMtime, content : Files]
                   \cup {[exists |-> FALSE, mtime |-> 0, content |-> EmptyFile]}
  /\ pc = "args"
  /\ stat = [taskset_ret_val |-> 0, schedule_ret_val |-> 0,
             taskset_mtime |-> 0, schedule_mtime |-> 0]
  /\ num_lines = ToU32(0)
  /\ num_tasks = ToU32(0)
  /\ t = 0
  /\ ifs = 0
  /\ exit = [how |-> "alive", code |-> NoCode]
  /\ sigL = FALSE
  /\ diag = "none"
  /\ child = [c \in Children |-> NoChild]
  /\ barrier = [inited |-> FALSE, count |-> ToU32(0), joined |-> {}, released |-> FALSE,
                inits |-> 0]
  /\ execv_call = [k \in Tasks |-> NoCall]
  /\ broadcasts = 0
  /\ attempts = 0

(***************************************************************************)
(* return <code> from main, after a line on stderr.                        *)
(***************************************************************************)
Return(code, msg) ==
  /\ exit' = [how |-> "exit", code |-> code]
  /\ diag' = msg
  /\ pc' = "done"

(***************************************************************************)
(* kill(0, SIGTERM): SIGTERM becomes pending for every live process of the *)
(* group.  KillGroup is its effect on the children.                        *)
(***************************************************************************)
\* a signal that reaches the caller only
KillCallerOnly(ch) == ch

KillGroup(ch) ==
  [c \in DOMAIN ch |-> IF Alive(ch[c]) THEN [ch[c] EXCEPT !.sig = TRUE] ELSE ch[c]]

(***************************************************************************)
(* The launcher's failure branches of the task loop: a line on stderr,     *)
(* kill(0, SIGTERM), return <code>.  The launcher is of the group, and its *)
(* own SIGTERM is delivered before kill returns: it is terminated by the   *)
(* signal and the return statement is not reached.                         *)
(***************************************************************************)
\* a failure branch that returns its code without the broadcast
ReturnWithoutBroadcast(code, msg) ==
  /\ exit' = [how |-> "exit", code |-> code]
  /\ diag' = msg
  /\ pc' = "done"
  /\ UNCHANGED << child, broadcasts, sigL >>

AbortBroadcast(code, msg) ==
  /\ diag' = msg
  /\ child' = KillGroup(child)
  /\ broadcasts' = broadcasts + 1
  /\ exit' = [how |-> "signal", code |-> NoCode]
  /\ sigL' = FALSE
  /\ pc' = "done"

\* if (argc != 2) return ARGUMENT_ERROR
CheckArgs ==
  /\ pc = "args" /\ LauncherAlive
  /\ IF argc # 2
       THEN Return(RT_GOMP_CLUSTERING_LAUNCHER_ARGUMENT_ERROR, "argument")
       ELSE pc' = "stat" /\ UNCHANGED << exit, diag >>
  /\ UNCHANGED << argc, taskset, schedule_file, stat, num_lines, num_tasks, t, ifs,
                  sigL, child, barrier, execv_call, broadcasts, attempts >>

\* a freshness test that takes equal times for stale
NeedsSchedulingNotOlder(st) ==
  st.schedule_ret_val = -1
    \/ (st.taskset_ret_val = 0 /\ st.taskset_mtime >= st.schedule_mtime)

\* the condition under which the schedule is regenerated
NeedsScheduling(st) ==
  st.schedule_ret_val = -1
    \/ (st.taskset_ret_val = 0 /\ st.taskset_mtime > st.schedule_mtime)

\* the two stat calls and the freshness test
CheckFreshness ==
  /\ pc = "stat" /\ LauncherAlive
  /\ LET st == [taskset_ret_val |-> IF taskset.exists THEN 0 ELSE -1,
                schedule_ret_val |-> IF schedule_file.exists THEN 0 ELSE -1,
                taskset_mtime |-> taskset.mtime,
                schedule_mtime |-> schedule_file.mtime]
     IN  /\ stat' = st
         /\ IF NeedsScheduling(st)
              THEN IF st.taskset_ret_val = -1
                     THEN Return(RT_GOMP_CLUSTERING_LAUNCHER_FILE_OPEN_ERROR,
                                 "cannot open taskset")
                     ELSE /\ pc' = "fork_scheduler"
                          /\ diag' = "scheduling taskset"
                          /\ UNCHANGED exit
              ELSE pc' = "open" /\ UNCHANGED << exit, diag >>
  /\ UNCHANGED << argc, taskset, schedule_file, num_lines, num_tasks, t, ifs,
                  sigL, child, barrier, execv_call, broadcasts, attempts >>

\* pid = fork() for the scheduler: the child is created
ForkScheduler ==
  /\ pc = "fork_scheduler" /\ LauncherAlive /\ ~sigL
  /\ child' = [child EXCEPT ![SchedulerChild] = [NoChild EXCEPT !.st = "forked"]]
  /\ pc' = "wait_scheduler"
  /\ UNCHANGED << argc, taskset, schedule_file, stat, num_lines, num_tasks, t, ifs,
                  exit, sigL, diag, barrier, execv_call, broadcasts, attempts >>

\* a fork failure handled as the task loop handles one
ForkSchedulerFailsBroadcast ==
  /\ pc = "fork_scheduler" /\ LauncherAlive
  /\ AbortBroadcast(RT_GOMP_CLUSTERING_LAUNCHER_FORK_EXECV_ERROR, "forking scheduler failed")
  /\ UNCHANGED << argc, taskset, schedule_file, stat, num_lines, num_tasks, t, ifs,
                  barrier, execv_call, attempts >>

\* pid == -1: perror, return FORK_EXECV_ERROR
ForkSchedulerFails ==
  /\ pc = "fork_scheduler" /\ LauncherAlive
  /\ Return(RT_GOMP_CLUSTERING_LAUNCHER_FORK_EXECV_ERROR, "forking scheduler failed")
  /\ UNCHANGED << argc, taskset, schedule_file, stat, num_lines, num_tasks, t, ifs,
                  sigL, child, barrier, execv_call, broadcasts, attempts >>

\* a test that holds as soon as wait has returned one child
SomeChildEnded == \E c \in Children : child[c].st \in {"exited", "signaled"}

\* wait(NULL) == -1 && errno == ECHILD: no child is left
NoChildren == \A c \in Children : ~Alive(child[c])

\* while (!(wait(NULL) == -1 && errno == ECHILD));
WaitScheduler ==
  /\ pc = "wait_scheduler" /\ LauncherAlive
  /\ NoChildren
  /\ pc' = "open"
  /\ UNCHANGED << argc, taskset, schedule_file, stat, num_lines, num_tasks, t, ifs,
                  exit, sigL, diag, child, barrier, execv_call, broadcasts, attempts >>

\* std::ifstream ifs(schedule_filename); if (!ifs.is_open()) return FILE_OPEN_ERROR
OpenSchedule ==
  /\ pc = "open" /\ LauncherAlive
  /\ IF ~schedule_file.exists
       THEN Return(RT_GOMP_CLUSTERING_LAUNCHER_FILE_OPEN_ERROR, "cannot open schedule")
       ELSE pc' = "count" /\ UNCHANGED << exit, diag >>
  /\ UNCHANGED << argc, taskset, schedule_file, stat, num_lines, num_tasks, t, ifs,
                  sigL, child, barrier, execv_call, broadcasts, attempts >>

\* the lines getline yields from the schedule file
ScheduleLines == GetLines(Render(schedule_file.content))

\* unsigned num_tasks = (num_lines - 2) / 3
NumTasks(lines) == U32Div(U32Sub(lines, ToU32(2)), 3)

\* the test without its lower bound
LineCountDivisible(lines) == U32Mod(U32Sub(lines, ToU32(2)), 3) = 0

\* num_lines >= 2 && (num_lines - 2) % 3 == 0
LineCountValid(lines) ==
  U32Le(ToU32(2), lines) /\ U32Mod(U32Sub(lines, ToU32(2)), 3) = 0

\* a counting pass that leaves the stream at the end of the file
CountLinesNoRewind ==
  /\ pc = "count" /\ LauncherAlive
  /\ LET lines == ToU32(Len(ScheduleLines))
     IN  /\ num_lines' = lines
         /\ num_tasks' = NumTasks(lines)
         /\ ifs' = Len(ScheduleLines)
         /\ IF ~LineCountValid(lines)
              THEN Return(RT_GOMP_CLUSTERING_LAUNCHER_FILE_PARSE_ERROR,
                          "invalid number of lines")
              ELSE pc' = "schedulability" /\ UNCHANGED << exit, diag >>
  /\ UNCHANGED << argc, taskset, schedule_file, stat, t,
                  sigL, child, barrier, execv_call, broadcasts, attempts >>

\* the counting pass, the line count check, ifs.clear() and ifs.seekg(0)
CountLines ==
  /\ pc = "count" /\ LauncherAlive
  /\ LET lines == ToU32(Len(ScheduleLines))
     IN  /\ num_lines' = lines
         /\ num_tasks' = NumTasks(lines)
         /\ IF ~LineCountValid(lines)
              THEN /\ Return(RT_GOMP_CLUSTERING_LAUNCHER_FILE_PARSE_ERROR,
                             "invalid number of lines")
                   /\ ifs' = Len(ScheduleLines)
              ELSE pc' = "schedulability" /\ ifs' = 0 /\ UNCHANGED << exit, diag >>
  /\ UNCHANGED << argc, taskset, schedule_file, stat, t,
                  sigL, child, barrier, execv_call, broadcasts, attempts >>

\* a gate that lets every numeric verdict through
SchedulabilityIgnored(lines) ==
  IF Len(lines) >= 1 /\ ExtractUnsigned(lines[1]).ok
    THEN [go |-> TRUE, code |-> NoCode, msg |-> "taskset is schedulable"]
    ELSE [go |-> FALSE, code |-> RT_GOMP_CLUSTERING_LAUNCHER_FILE_PARSE_ERROR,
          msg |-> "schedulability improperly specified"]

\* the schedulability gate on line 1: what main does with the line
Schedulability(lines) ==
  IF Len(lines) < 1
    THEN [go |-> FALSE, code |-> RT_GOMP_CLUSTERING_LAUNCHER_FILE_PARSE_ERROR,
          msg |-> "schedulability improperly specified"]
    ELSE LET u == ExtractUnsigned(lines[1])
         IN  IF ~u.ok
               THEN [go |-> FALSE, code |-> RT_GOMP_CLUSTERING_LAUNCHER_FILE_PARSE_ERROR,
                     msg |-> "schedulability improperly specified"]
               ELSE IF u.val = ToU32(0)
                 THEN [go |-> TRUE, code |-> NoCode, msg |-> "taskset is schedulable"]
               ELSE IF u.val = ToU32(1)
                 THEN [go |-> TRUE, code |-> NoCode, msg |-> "taskset may not be schedulable"]
               ELSE [go |-> FALSE, code |-> RT_GOMP_CLUSTERING_LAUNCHER_UNSCHEDULABLE_ERROR,
                     msg |-> "taskset not schedulable"]

\* the lines getline still yields from the stream's position
Unread(lines, pos) == SubSeq(lines, pos + 1, Len(lines))

\* std::getline(ifs, schedulability_line) and the gate on it
CheckSchedulability ==
  /\ pc = "schedulability" /\ LauncherAlive
  /\ LET s == Schedulability(Unread(ScheduleLines, ifs))
     IN  IF s.go
           THEN pc' = "core_range" /\ diag' = s.msg /\ UNCHANGED exit
           ELSE Return(s.code, s.msg)
  /\ ifs' = IF ifs + 1 > Len(ScheduleLines) THEN ifs ELSE ifs + 1
  /\ UNCHANGED << argc, taskset, schedule_file, stat, num_lines, num_tasks, t,
                  sigL, child, barrier, execv_call, broadcasts, attempts >>

\* if (!std::getline(ifs, core_range_line)) return FILE_PARSE_ERROR
ReadCoreRange ==
  /\ pc = "core_range" /\ LauncherAlive
  /\ IF ifs + 1 > Len(ScheduleLines)
       THEN /\ Return(RT_GOMP_CLUSTERING_LAUNCHER_FILE_PARSE_ERROR, "missing core range line")
            /\ UNCHANGED ifs
       ELSE pc' = "barrier" /\ ifs' = ifs + 1 /\ UNCHANGED << exit, diag >>
  /\ UNCHANGED << argc, taskset, schedule_file, stat, num_lines, num_tasks, t,
                  sigL, child, barrier, execv_call, broadcasts, attempts >>

\* a barrier sized one participant short
BarrierParticipantsShort == U32Sub(num_tasks, ToU32(1))

\* the participant count main gives init_single_use_barrier
BarrierParticipants == num_tasks

\* ret_val = init_single_use_barrier(barrier_name, num_tasks), ret_val == 0
InitBarrier ==
  /\ pc = "barrier" /\ LauncherAlive
  /\ barrier' = [inited |-> TRUE, count |-> BarrierParticipants, joined |-> {},
                  released |-> FALSE, inits |-> barrier.inits + 1]
  /\ pc' = "loop"
  /\ t' = 1
  /\ UNCHANGED << argc, taskset, schedule_file, stat, num_lines, num_tasks, ifs,
                  exit, sigL, diag, child, execv_call, broadcasts, attempts >>

\* a failure of the initialization that is reported and not returned on
InitBarrierFailureIgnored ==
  /\ pc = "barrier" /\ LauncherAlive
  /\ diag' = "failed to initialize barrier"
  /\ pc' = "loop"
  /\ t' = 1
  /\ UNCHANGED << argc, taskset, schedule_file, stat, num_lines, num_tasks, ifs,
                  exit, sigL, child, barrier, execv_call, broadcasts, attempts >>

\* ret_val != 0: return BARRIER_INITIALIZATION_ERROR
InitBarrierFails ==
  /\ pc = "barrier" /\ LauncherAlive
  /\ Return(RT_GOMP_CLUSTERING_LAUNCHER_BARRIER_INITIALIZATION_ERROR,
            "failed to initialize barrier")
  /\ UNCHANGED << argc, taskset, schedule_file, stat, num_lines, num_tasks, t, ifs,
                  sigL, child, barrier, execv_call, broadcasts, attempts >>

(***************************************************************************)
(* One task record: the three getline calls of an iteration and the        *)
(* projection of the three lines into task_manager_argvector.              *)
(***************************************************************************)
Rejected(msg) == [ok |-> FALSE, msg |-> msg, program_name |-> << >>, argv |-> << >>]

\* a projection that skips one timing parameter too few
TaskManagerArgvSkipsThree(command, timing, partition) ==
  LET prog == ExtractString(command)
      parts == ExtractN(partition, num_partition_params)
      skipped == ExtractN(timing, num_skipped_timing_params - 1)
      kept == ExtractN(skipped.rest, num_timing_params - num_skipped_timing_params)
  IN  IF ~prog.ok \/ ~parts.ok \/ ~skipped.ok \/ ~kept.ok
        THEN Rejected("too few timing parameters")
        ELSE [ok |-> TRUE, msg |-> "forking and execv-ing task",
              program_name |-> prog.tok,
              argv |-> << prog.tok >> \o parts.toks \o kept.toks \o << barrier_name >>
                         \o << prog.tok >> \o ExtractAll(prog.rest)]

\* a projection that gives every task a barrier name of its own
TaskManagerArgvOwnBarrier(command, timing, partition) ==
  LET prog == ExtractString(command)
      parts == ExtractN(partition, num_partition_params)
      skipped == ExtractN(timing, num_skipped_timing_params)
      kept == ExtractN(skipped.rest, num_timing_params - num_skipped_timing_params)
  IN  IF ~prog.ok THEN Rejected("program name not provided")
      ELSE IF ~parts.ok THEN Rejected("too few partition parameters")
      ELSE IF ExtractString(parts.rest).ok THEN Rejected("too many partition parameters")
      ELSE IF ~skipped.ok THEN Rejected("too few timing parameters")
      ELSE IF ~kept.ok THEN Rejected("too few timing parameters")
      ELSE IF ExtractString(kept.rest).ok THEN Rejected("too many timing parameters")
      ELSE [ok |-> TRUE, msg |-> "forking and execv-ing task",
            program_name |-> prog.tok,
            argv |-> << prog.tok >> \o parts.toks \o kept.toks
                       \o << barrier_name \o prog.tok >>
                       \o << prog.tok >> \o ExtractAll(prog.rest)]

TaskManagerArgv(command, timing, partition) ==
  LET prog == ExtractString(command)
      parts == ExtractN(partition, num_partition_params)
      skipped == ExtractN(timing, num_skipped_timing_params)
      kept == ExtractN(skipped.rest, num_timing_params - num_skipped_timing_params)
  IN  IF ~prog.ok THEN Rejected("program name not provided")
      ELSE IF ~parts.ok THEN Rejected("too few partition parameters")
      ELSE IF ExtractString(parts.rest).ok THEN Rejected("too many partition parameters")
      ELSE IF ~skipped.ok THEN Rejected("too few timing parameters")
      ELSE IF ~kept.ok THEN Rejected("too few timing parameters")
      ELSE IF ExtractString(kept.rest).ok THEN Rejected("too many timing parameters")
      ELSE [ok |-> TRUE, msg |-> "forking and execv-ing task",
            program_name |-> prog.tok,
            argv |-> << prog.tok >> \o parts.toks \o kept.toks \o << barrier_name >>
                       \o << prog.tok >> \o ExtractAll(prog.rest)]

\* a validation of all the records left, ahead of the first fork
TaskRecordEager(lines, pos) ==
  IF pos + 3 > Len(lines)
    THEN Rejected("provide three lines for each task")
    ELSE LET bad == { q \in {pos + 3 * i : i \in 0..MaxTasks} :
                        /\ q + 3 <= Len(lines)
                        /\ ~TaskManagerArgv(lines[q + 1], lines[q + 2], lines[q + 3]).ok }
             at == IF bad = {} THEN pos ELSE CHOOSE q \in bad : \A r \in bad : q <= r
         IN  TaskManagerArgv(lines[at + 1], lines[at + 2], lines[at + 3])

TaskRecord(lines, pos) ==
  IF pos + 3 > Len(lines)
    THEN Rejected("provide three lines for each task")
    ELSE TaskManagerArgv(lines[pos + 1], lines[pos + 2], lines[pos + 3])

InLoop == pc = "loop" /\ LauncherAlive /\ U32Le(ToU32(t), num_tasks)

\* a failure branch that signals the group only once a task has been created
RejectTaskRecordQuietFirst ==
  /\ InLoop
  /\ LET r == TaskRecord(ScheduleLines, ifs)
     IN  /\ ~r.ok
         /\ IF t = 1
              THEN /\ Return(RT_GOMP_CLUSTERING_LAUNCHER_FILE_PARSE_ERROR, r.msg)
                   /\ UNCHANGED << child, broadcasts, sigL >>
              ELSE AbortBroadcast(RT_GOMP_CLUSTERING_LAUNCHER_FILE_PARSE_ERROR, r.msg)
  /\ UNCHANGED << argc, taskset, schedule_file, stat, num_lines, num_tasks, t, ifs,
                  barrier, execv_call, attempts >>

\* a failure branch of the record's checks: stderr, kill(0, SIGTERM), return
RejectTaskRecord ==
  /\ InLoop
  /\ LET r == TaskRecord(ScheduleLines, ifs)
     IN  /\ ~r.ok
         /\ AbortBroadcast(RT_GOMP_CLUSTERING_LAUNCHER_FILE_PARSE_ERROR, r.msg)
  /\ UNCHANGED << argc, taskset, schedule_file, stat, num_lines, num_tasks, t, ifs,
                  barrier, execv_call, attempts >>

\* a fork held back until the tasks created so far have joined or ended
ForkAfterEarlierJoined ==
  ~sigL /\ \A k \in Tasks : child[k].st \notin {"forked", "running"}

\* whether fork() can create a child: not while a signal is pending for the
\* caller (the kernel delivers the signal first, so that a signal sent to the
\* group reaches the parent before the fork or both processes after it)
ForkAllowed == ~sigL

\* pid = fork() succeeds: the child holds a copy of the argument vector
ForkTask ==
  /\ InLoop
  /\ ForkAllowed
  /\ LET r == TaskRecord(ScheduleLines, ifs)
     IN  /\ r.ok
         /\ child' = [child EXCEPT ![t] = [st |-> "forked", sig |-> FALSE, code |-> NoCode,
                                          argv |-> << r.program_name, r.argv >>]]
         /\ diag' = r.msg
  /\ attempts' = attempts + 1
  /\ t' = t + 1
  /\ ifs' = ifs + 3
  /\ UNCHANGED << argc, taskset, schedule_file, pc, stat, num_lines, num_tasks,
                  exit, sigL, barrier, execv_call, broadcasts >>

\* pid == -1: perror, kill(0, SIGTERM), return FORK_EXECV_ERROR
ForkTaskFails ==
  /\ InLoop
  /\ TaskRecord(ScheduleLines, ifs).ok
  /\ AbortBroadcast(RT_GOMP_CLUSTERING_LAUNCHER_FORK_EXECV_ERROR, "forking task failed")
  /\ attempts' = attempts + 1
  /\ UNCHANGED << argc, taskset, schedule_file, stat, num_lines, num_tasks, t, ifs,
                  barrier, execv_call >>

\* the loop ends: ifs.close(), "All tasks started"
AllTasksStarted ==
  /\ pc = "loop" /\ LauncherAlive /\ ~U32Le(ToU32(t), num_tasks)
  /\ pc' = "reap"
  /\ diag' = "all tasks started"
  /\ UNCHANGED << argc, taskset, schedule_file, stat, num_lines, num_tasks, t, ifs,
                  exit, sigL, child, barrier, execv_call, broadcasts, attempts >>

\* a reap loop that gives up while children are left
ReapGivesUp ==
  /\ pc = "reap" /\ LauncherAlive
  /\ ~sigL
  /\ Return(RT_GOMP_CLUSTERING_LAUNCHER_SUCCESS, "all tasks finished")
  /\ UNCHANGED << argc, taskset, schedule_file, stat, num_lines, num_tasks, t, ifs,
                  sigL, child, barrier, execv_call, broadcasts, attempts >>

\* while (!(wait(NULL) == -1 && errno == ECHILD)); "All tasks finished"; return 0
Reap ==
  /\ pc = "reap" /\ LauncherAlive
  /\ ~sigL    \* a pending signal is delivered as wait returns
  /\ NoChildren
  /\ Return(RT_GOMP_CLUSTERING_LAUNCHER_SUCCESS, "all tasks finished")
  /\ UNCHANGED << argc, taskset, schedule_file, stat, num_lines, num_tasks, t, ifs,
                  sigL, child, barrier, execv_call, broadcasts, attempts >>

\* the pending SIGTERM is delivered to the launcher
DeliverLauncher ==
  /\ LauncherAlive /\ sigL
  /\ exit' = [how |-> "signal", code |-> NoCode]
  /\ sigL' = FALSE
  /\ pc' = "done"
  /\ UNCHANGED << argc, taskset, schedule_file, stat, num_lines, num_tasks, t, ifs,
                  diag, child, barrier, execv_call, broadcasts, attempts >>

(***************************************************************************)
(* The scheduler child: execvp("python", ...).  When execvp returns, the   *)
(* child prints the error and returns FORK_EXECV_ERROR from main.          *)
(***************************************************************************)
SchedulerExec ==
  /\ child[SchedulerChild].st = "forked"
  /\ child' = [child EXCEPT ![SchedulerChild].st = "running"]
  /\ UNCHANGED << argc, taskset, schedule_file, pc, stat, num_lines, num_tasks, t, ifs,
                  exit, sigL, diag, barrier, execv_call, broadcasts, attempts >>

SchedulerExecFails ==
  /\ child[SchedulerChild].st = "forked"
  /\ child' = [child EXCEPT ![SchedulerChild].st = "exited",
                            ![SchedulerChild].code =
                                RT_GOMP_CLUSTERING_LAUNCHER_FORK_EXECV_ERROR]
  /\ UNCHANGED << argc, taskset, schedule_file, pc, stat, num_lines, num_tasks, t, ifs,
                  exit, sigL, diag, barrier, execv_call, broadcasts, attempts >>

(***************************************************************************)
(* The external scheduler (python cluster.py): it may write the schedule   *)
(* file, with any content, and exits with any status.                      *)
(***************************************************************************)
SchedulerRuns ==
  /\ child[SchedulerChild].st = "running"
  /\ \E code \in 0..1 :
       child' = [child EXCEPT ![SchedulerChild].st = "exited",
                              ![SchedulerChild].code = code]
  /\ \/ UNCHANGED schedule_file
     \/ \E f \in Files :
          schedule_file' = [exists |-> TRUE, mtime |-> MaxMtime, content |-> f]
  /\ UNCHANGED << argc, taskset, pc, stat, num_lines, num_tasks, t, ifs,
                  exit, sigL, diag, barrier, execv_call, broadcasts, attempts >>

(***************************************************************************)
(* Task k's child: execv(program_name, task_manager_argv).                 *)
(***************************************************************************)
ExecvCall(c, failed) ==
  [called |-> TRUE, failed |-> failed, path |-> c.argv[1], argv |-> c.argv[2]]

TaskExec(k) ==
  /\ child[k].st = "forked"
  /\ execv_call' = [execv_call EXCEPT ![k] = ExecvCall(child[k], FALSE)]
  /\ child' = [child EXCEPT ![k].st = "running", ![k].argv = << >>]
  /\ UNCHANGED << argc, taskset, schedule_file, pc, stat, num_lines, num_tasks, t, ifs,
                  exit, sigL, diag, barrier, broadcasts, attempts >>

\* a child that sends the broadcast only when none was sent yet
TaskExecFailsGuarded(k) ==
  /\ child[k].st = "forked"
  /\ execv_call' = [execv_call EXCEPT ![k] = ExecvCall(child[k], TRUE)]
  /\ IF broadcasts = 0
       THEN /\ child' = [KillGroup(child) EXCEPT ![k].st = "signaled", ![k].sig = FALSE,
                                                 ![k].argv = << >>]
            /\ sigL' = (LauncherAlive \/ sigL)
            /\ broadcasts' = broadcasts + 1
       ELSE /\ child' = [child EXCEPT ![k].st = "exited", ![k].sig = FALSE,
                                      ![k].argv = << >>,
                                      ![k].code = RT_GOMP_CLUSTERING_LAUNCHER_FORK_EXECV_ERROR]
            /\ UNCHANGED << sigL, broadcasts >>
  /\ UNCHANGED << argc, taskset, schedule_file, pc, stat, num_lines, num_tasks, t, ifs,
                  exit, diag, barrier, attempts >>

\* execv returns: perror, kill(0, SIGTERM), return FORK_EXECV_ERROR.  The child
\* is of the group: its own SIGTERM terminates it before kill returns.
TaskExecFails(k) ==
  /\ child[k].st = "forked"
  /\ execv_call' = [execv_call EXCEPT ![k] = ExecvCall(child[k], TRUE)]
  /\ child' = [KillGroup(child) EXCEPT ![k].st = "signaled", ![k].sig = FALSE,
                                      ![k].argv = << >>]
  /\ sigL' = (LauncherAlive \/ sigL)
  /\ broadcasts' = broadcasts + 1
  /\ UNCHANGED << argc, taskset, schedule_file, pc, stat, num_lines, num_tasks, t, ifs,
                  exit, diag, barrier, attempts >>

(***************************************************************************)
(* The task programs and the barrier library: a task joins the named       *)
(* barrier once, before its timed workload; the joiners block until as     *)
(* many have joined as the barrier was initialized for, and are then       *)
(* released together.  A task may also exit at any time it is not blocked. *)
(***************************************************************************)
BarrierFull(joined) == ToU32(Cardinality(joined)) = barrier.count

TaskJoin(k) ==
  /\ child[k].st = "running"
  /\ barrier.inited
  /\ k \notin barrier.joined
  /\ LET joined == barrier.joined \cup {k}
     IN  /\ barrier' = [barrier EXCEPT !.joined = joined,
                                       !.released = BarrierFull(joined)]
         /\ child' = [c \in Children |->
                        IF BarrierFull(joined) /\ c \in joined /\ child[c].st \in {"running", "joined"}
                          THEN [child[c] EXCEPT !.st = "passed"]
                        ELSE IF c = k THEN [child[c] EXCEPT !.st = "joined"]
                        ELSE child[c]]
  /\ UNCHANGED << argc, taskset, schedule_file, pc, stat, num_lines, num_tasks, t, ifs,
                  exit, sigL, diag, execv_call, broadcasts, attempts >>

TaskExit(k) ==
  /\ child[k].st \in {"running", "passed"}
  /\ \E code \in 0..1 :
       child' = [child EXCEPT ![k].st = "exited", ![k].code = code]
  /\ UNCHANGED << argc, taskset, schedule_file, pc, stat, num_lines, num_tasks, t, ifs,
                  exit, sigL, diag, barrier, execv_call, broadcasts, attempts >>

\* the pending SIGTERM is delivered to a child: it is terminated
DeliverChild(c) ==
  /\ Alive(child[c]) /\ child[c].sig
  /\ child' = [child EXCEPT ![c].st = "signaled", ![c].sig = FALSE, ![c].argv = << >>]
  /\ UNCHANGED << argc, taskset, schedule_file, pc, stat, num_lines, num_tasks, t, ifs,
                  exit, sigL, diag, barrier, execv_call, broadcasts, attempts >>

Next ==
  \/ CheckArgs
  \/ CheckFreshness
  \/ ForkScheduler
  \/ ForkSchedulerFails
  \/ WaitScheduler
  \/ OpenSchedule
  \/ CountLines
  \/ CheckSchedulability
  \/ ReadCoreRange
  \/ InitBarrier
  \/ InitBarrierFails
  \/ RejectTaskRecord
  \/ ForkTask
  \/ ForkTaskFails
  \/ AllTasksStarted
  \/ Reap
  \/ DeliverLauncher
  \/ SchedulerExec
  \/ SchedulerExecFails
  \/ SchedulerRuns
  \/ \E k \in Tasks : TaskExec(k)
  \/ \E k \in Tasks : TaskExecFails(k)
  \/ \E k \in Tasks : TaskJoin(k)
  \/ \E k \in Tasks : TaskExit(k)
  \/ \E c \in Children : DeliverChild(c)

Spec == Init /\ [][Next]_vars

(***************************************************************************)
(* Signal delivery is the kernel's: a pending signal is delivered.         *)
(***************************************************************************)
FairSpec ==
  /\ Spec
  /\ WF_vars(DeliverLauncher)
  /\ \A c \in Children : WF_vars(DeliverChild(c))

(***************************************************************************)
(* The launcher is a process the system runs: once its loop is over, it    *)
(* goes on to the reap loop, and its wait returns when no child is left.   *)
(* The children's steps are not constrained.                               *)
(***************************************************************************)
LiveSpec ==
  /\ FairSpec
  /\ WF_vars(AllTasksStarted)
  /\ WF_vars(Reap)

(***************************************************************************)
(* What the claims are stated in.                                          *)
(***************************************************************************)
\* the file's line count and the task count it stands for, on the integers
FileLineCount == Len(FileLines(schedule_file.content))
ScheduleN == (FileLineCount - 2) \div 3

Created(k) == child[k].st # "none"
CreatedTasks == {k \in Tasks : Created(k)}

\* the launcher's lines on stderr in its failure branches of the task loop
RecordRejections ==
  { "program name not provided", "too few partition parameters",
    "too many partition parameters", "too few timing parameters",
    "too many timing parameters", "provide three lines for each task" }
LauncherAborted == pc = "done" /\ diag \in RecordRejections \cup {"forking task failed"}

(***************************************************************************)
(* C1: no task passes the barrier before all N tasks of the schedule have  *)
(* been created and have joined: the barrier is initialized for N          *)
(* participants, at most N task processes are created, the barrier is      *)
(* released only once tasks 1..N are all created and joined, and a task    *)
(* that joined stays blocked while one of them is missing.                 *)
(***************************************************************************)
C1_NoTaskPassesEarly ==
  /\ barrier.inited => barrier.count = ToU32(ScheduleN)
  /\ CreatedTasks # {} => barrier.inited /\ CreatedTasks \subseteq 1..ScheduleN
  /\ attempts <= IF barrier.inited THEN ScheduleN ELSE 0
  /\ \A k \in Tasks :
       /\ child[k].st = "passed" => barrier.released
       /\ child[k].st = "joined" => \E j \in 1..ScheduleN : j \notin barrier.joined
  /\ barrier.released =>
       \A j \in 1..ScheduleN : Created(j) /\ j \in barrier.joined

C1_Witness ==
  /\ ScheduleN = MaxTasks
  /\ \E k \in Tasks : child[k].st = "passed"
  /\ \E k \in Tasks : child[k].st = "exited"

(***************************************************************************)
(* C2: when the launcher fails on task k, by a fork failure or by          *)
(* rejecting the record, with tasks 1..k-1 created, its SIGTERM broadcast  *)
(* reaches every one of them: each created task is then terminated or has  *)
(* SIGTERM pending, no task is created afterwards, and in the end no task  *)
(* process is left.                                                        *)
(***************************************************************************)
AllTasksSignalled ==
  \A k \in Tasks : Created(k) => ~Alive(child[k]) \/ child[k].sig

C2_FailureTerminatesTasks ==
  /\ [](LauncherAborted => AllTasksSignalled /\ CreatedTasks = 1..(t - 1))
  /\ (LauncherAborted ~> NoChildren)

C2_Witness ==
  /\ LauncherAborted
  /\ t = MaxTasks
  /\ \A k \in 1..(t - 1) : Alive(child[k]) /\ child[k].sig
  /\ child[1].st = "joined"

(***************************************************************************)
(* C3: on every failure inside the per-task sequence the launcher, having  *)
(* broadcast SIGTERM, exits with the documented code: FILE_PARSE_ERROR for *)
(* a rejected record and FORK_EXECV_ERROR for a failed fork.               *)
(***************************************************************************)
C3_ExitsWithDocumentedCode ==
  /\ pc = "done" /\ diag \in RecordRejections =>
       exit = [how |-> "exit", code |-> RT_GOMP_CLUSTERING_LAUNCHER_FILE_PARSE_ERROR]
  /\ pc = "done" /\ diag = "forking task failed" =>
       exit = [how |-> "exit", code |-> RT_GOMP_CLUSTERING_LAUNCHER_FORK_EXECV_ERROR]

(***************************************************************************)
(* C4: when execv fails in the child forked for task k, whatever the       *)
(* launcher is doing, the child's SIGTERM broadcast reaches the launcher   *)
(* and every task process of this run: from then on every live process of  *)
(* the run has SIGTERM pending, the barrier is never released and no task  *)
(* passes it, and in the end neither the launcher nor a task is left.      *)
(***************************************************************************)
ExecvFailed == \E k \in Tasks : execv_call[k].failed

C4_ExecvFailureStopsAll ==
  /\ [](ExecvFailed =>
          /\ LauncherAlive => sigL
          /\ \A k \in Tasks : Alive(child[k]) => child[k].sig
          /\ ~barrier.released
          /\ \A k \in Tasks : child[k].st # "passed")
  /\ (ExecvFailed ~> (~LauncherAlive /\ NoChildren))

C4_Witness ==
  /\ execv_call[MaxTasks].failed
  /\ LauncherAlive /\ sigL /\ pc = "reap"
  /\ child[1].st = "joined" /\ child[1].sig

(***************************************************************************)
(* C5: the verdict on line 1.  The launcher's lines on stderr tell how far *)
(* it got: BeforeGate are the exits before line 1 is looked at.            *)
(***************************************************************************)
BeforeGate ==
  { "argument", "cannot open taskset", "forking scheduler failed",
    "cannot open schedule", "invalid number of lines" }
ReachedGate ==
  \/ pc \in {"core_range", "barrier", "loop", "reap"}
  \/ pc = "done" /\ exit.how = "exit" /\ diag \notin BeforeGate
  \/ pc = "done" /\ exit.how = "signal"
PassedGate ==
  ReachedGate /\ diag \notin {"taskset not schedulable", "schedulability improperly specified"}

\* line 1 read as a decimal numeral
Verdict01 == { << "0" >>, << "1" >> }
VerdictFrom2 == { << "2" >>, << "4", "2", "9", "4", "9", "6", "7", "2", "9", "5" >> }
VerdictPast32Bits == { << "4", "2", "9", "4", "9", "6", "7", "2", "9", "6" >> }
Line1 == schedule_file.content.verdict

Unschedulable ==
  exit = [how |-> "exit", code |-> RT_GOMP_CLUSTERING_LAUNCHER_UNSCHEDULABLE_ERROR]
NoTaskLaunched ==
  /\ ~barrier.inited
  /\ CreatedTasks = {}
  /\ attempts = 0

(***************************************************************************)
(* C5, as claimed: a verdict of 0 or 1 proceeds to barrier initialization  *)
(* and task launch; any verdict >= 2 makes the launcher exit with          *)
(* UNSCHEDULABLE_ERROR before the barrier is initialized and before any    *)
(* process is created, so that no child process exists in that run.        *)
(***************************************************************************)
C5_AsClaimed ==
  /\ ReachedGate /\ Line1 \in Verdict01 => PassedGate
  /\ ReachedGate /\ Line1 \in VerdictFrom2 \cup VerdictPast32Bits => Unschedulable
  /\ Unschedulable => NoTaskLaunched /\ \A c \in Children : child[c].st = "none"

(***************************************************************************)
(* C5, amended: a verdict of 0 or 1 proceeds to barrier initialization and *)
(* task launch; a verdict from 2 to 2^32 - 1 makes the launcher exit with  *)
(* UNSCHEDULABLE_ERROR before the barrier is initialized and before any    *)
(* task process is created (the scheduler's process may have been created, *)
(* and has then ended, when the schedule was stale); a verdict of 2^32 or  *)
(* more does not convert and is a FILE_PARSE_ERROR, again before the       *)
(* barrier and any task.  Nothing but a verdict of 0 or 1 passes the gate. *)
(***************************************************************************)
C5_VerdictGate ==
  /\ ReachedGate /\ Line1 \in Verdict01 => PassedGate
  /\ ReachedGate /\ Line1 \in VerdictFrom2 => Unschedulable
  /\ ReachedGate /\ Line1 \in VerdictPast32Bits =>
       exit = [how |-> "exit", code |-> RT_GOMP_CLUSTERING_LAUNCHER_FILE_PARSE_ERROR]
  /\ ReachedGate /\ ~PassedGate =>
       NoTaskLaunched /\ broadcasts = 0 /\ ~Alive(child[SchedulerChild])
  /\ PassedGate =>
       ExtractUnsigned(Line1).val \in {ToU32(0), ToU32(1)}

C5_Witness ==
  /\ Unschedulable
  /\ Line1 = << "2" >>
  /\ Len(schedule_file.content.shapes) = MaxTasks
  /\ child[SchedulerChild].st = "exited"

(***************************************************************************)
(* C6: with L the file's line count, the file passes the line count check  *)
(* iff L >= 2 and 3 divides L - 2, and is otherwise rejected with          *)
(* FILE_PARSE_ERROR before the barrier is initialized, L = 0 and L = 1,    *)
(* where the unsigned L - 2 wraps around, included; for a file that passes *)
(* num_tasks is N = (L - 2) / 3, the barrier, once initialized, has        *)
(* exactly N participants, never more than N task creations are attempted  *)
(* and exactly N have been when the loop is left.                          *)
(***************************************************************************)
BeforeCount ==
  { "argument", "cannot open taskset", "forking scheduler failed", "cannot open schedule" }
LineCountChecked ==
  \/ pc \in {"schedulability", "core_range", "barrier", "loop", "reap"}
  \/ pc = "done" /\ exit.how = "exit" /\ diag \notin BeforeCount
  \/ pc = "done" /\ exit.how = "signal"
LineCountRejected == LineCountChecked /\ diag = "invalid number of lines"

C6_LineCount ==
  /\ LineCountChecked =>
       /\ num_lines = ToU32(FileLineCount)
       /\ ~LineCountRejected <=> (FileLineCount >= 2 /\ (FileLineCount - 2) % 3 = 0)
  /\ LineCountRejected =>
       /\ exit = [how |-> "exit", code |-> RT_GOMP_CLUSTERING_LAUNCHER_FILE_PARSE_ERROR]
       /\ NoTaskLaunched
  /\ LineCountChecked /\ ~LineCountRejected => num_tasks = ToU32(ScheduleN)
  /\ barrier.inited => barrier.count = ToU32(ScheduleN) /\ ~LineCountRejected
  /\ attempts > 0 => barrier.inited /\ attempts <= ScheduleN
  /\ diag \in {"all tasks started", "all tasks finished"} \/ pc = "reap" =>
       attempts = ScheduleN

C6_Witness ==
  /\ LineCountRejected
  /\ FileLineCount = 1
  /\ num_tasks = [hi |-> 21845, lo |-> 21845]

(***************************************************************************)
(* C7: if the barrier's initialization fails, the launcher exits with      *)
(* BARRIER_INITIALIZATION_ERROR and no task process is created in the run. *)
(***************************************************************************)
C7_BarrierFailure ==
  /\ diag = "failed to initialize barrier" =>
       /\ exit = [how |-> "exit",
                  code |-> RT_GOMP_CLUSTERING_LAUNCHER_BARRIER_INITIALIZATION_ERROR]
       /\ pc = "done"
  /\ diag = "failed to initialize barrier"
       \/ exit.code = RT_GOMP_CLUSTERING_LAUNCHER_BARRIER_INITIALIZATION_ERROR =>
       /\ ~barrier.inited
       /\ CreatedTasks = {}
       /\ attempts = 0
       /\ \A k \in Tasks : ~execv_call[k].called

C7_Witness ==
  /\ exit.code = RT_GOMP_CLUSTERING_LAUNCHER_BARRIER_INITIALIZATION_ERROR
  /\ ScheduleN = MaxTasks
  /\ Line1 = << "1" >>

(***************************************************************************)
(* C8: for an accepted record of task k, with program path P, m arguments  *)
(* a1..am, partition tokens p0..p2 and timing tokens t0..t10, the child's  *)
(* execv call is execv(P, [P, p0, p1, p2, t4, ..., t10, barrier name, P,   *)
(* a1, ..., am]): 13 + m entries, t0..t3 absent.                           *)
(***************************************************************************)
ExpectedArgv(k, m) ==
  << ProgramPath(k),
     PartitionToken(0), PartitionToken(1), PartitionToken(2),
     TimingToken(4), TimingToken(5), TimingToken(6), TimingToken(7),
     TimingToken(8), TimingToken(9), TimingToken(10),
     barrier_name,
     ProgramPath(k) >> \o [j \in 1..m |-> TaskArg(j)]

C8_ArgumentVector ==
  \A k \in Tasks :
    execv_call[k].called =>
         /\ k <= Len(schedule_file.content.shapes)
         /\ LET m == schedule_file.content.shapes[k].cmd - 1
            IN  /\ execv_call[k].path = ProgramPath(k)
                /\ execv_call[k].argv = ExpectedArgv(k, m)
                /\ Len(execv_call[k].argv) = 13 + m
                /\ \A i \in 1..Len(execv_call[k].argv) :
                     execv_call[k].argv[i] \notin {TimingToken(j) : j \in 0..3}

C8_Witness ==
  /\ execv_call[MaxTasks].called
  /\ ~execv_call[MaxTasks].failed
  /\ Len(execv_call[MaxTasks].argv) = 13 + (MaxTasks % 3)
  /\ execv_call[1].argv =
       << << "w", "1" >>, << "p", "0" >>, << "p", "1" >>, << "p", "2" >>,
          << "2", "4" >>, << "2", "5" >>, << "2", "6" >>, << "2", "7" >>,
          << "2", "8" >>, << "2", "9" >>, << "3", "0" >>, barrier_name, << "w", "1" >>,
          << "-", "1" >> >>

(***************************************************************************)
(* C9: the projector's decision on the record of task k.                   *)
(***************************************************************************)
ShapeAccepted(sh) ==
  sh.cmd >= 1 /\ sh.part = 3 /\ sh.timing = 11
RecordsInFile == 1..Len(schedule_file.content.shapes)
RejectedAt(k) == pc = "done" /\ diag \in RecordRejections /\ t = k

\* accepted iff at least one command token, 3 partition and 11 timing tokens;
\* no process is created for a rejected record
ProjectorDecision ==
  \A k \in RecordsInFile :
    /\ Created(k) \/ (diag = "forking task failed" /\ t = k) =>
         ShapeAccepted(schedule_file.content.shapes[k])
    /\ RejectedAt(k) =>
         ~ShapeAccepted(schedule_file.content.shapes[k]) /\ ~Created(k)

(***************************************************************************)
(* C9, as claimed: the projector accepts a task record iff its command     *)
(* line has at least one token, its partition line exactly 3 and its       *)
(* timing line exactly 11; a record with 2 or 4 partition tokens or 10 or  *)
(* 12 timing tokens is rejected with FILE_PARSE_ERROR and no process is    *)
(* created for that task.                                                  *)
(***************************************************************************)
C9_AsClaimed ==
  /\ ProjectorDecision
  /\ \A k \in RecordsInFile :
       RejectedAt(k) =>
         exit = [how |-> "exit", code |-> RT_GOMP_CLUSTERING_LAUNCHER_FILE_PARSE_ERROR]

(***************************************************************************)
(* C10: the scheduler is started only when the schedule file is missing or *)
(* the taskset exists and is strictly newer, and then whenever the taskset *)
(* exists; when the schedule must be made and the taskset is missing the   *)
(* launcher exits with FILE_OPEN_ERROR, no scheduler started and nothing   *)
(* read; the launcher opens the schedule file only once the scheduler's    *)
(* process has ended, and does so whatever its exit status.                *)
(***************************************************************************)
FreshnessChecked == pc \notin {"args", "stat"} /\ diag # "argument"
SchedulerForkCalled ==
  \/ pc \in {"fork_scheduler", "wait_scheduler"}
  \/ child[SchedulerChild].st # "none"
  \/ diag = "forking scheduler failed"
SchedulingRequired ==
  \/ stat.schedule_ret_val = -1
  \/ (stat.taskset_ret_val = 0 /\ stat.taskset_mtime > stat.schedule_mtime)
ParsingBegun ==
  \/ pc \in {"open", "count", "schedulability", "core_range", "barrier", "loop", "reap"}
  \/ pc = "done" /\ diag \notin {"argument", "cannot open taskset", "forking scheduler failed"}

C10_FreshnessCheck ==
  /\ ~FreshnessChecked => ~SchedulerForkCalled /\ ~ParsingBegun
  /\ FreshnessChecked =>
       /\ stat.taskset_ret_val = (IF taskset.exists THEN 0 ELSE -1)
       /\ stat.taskset_ret_val = 0 => stat.taskset_mtime = taskset.mtime
       /\ SchedulerForkCalled <=> (SchedulingRequired /\ taskset.exists)
       /\ SchedulingRequired /\ ~taskset.exists =>
            /\ exit = [how |-> "exit", code |-> RT_GOMP_CLUSTERING_LAUNCHER_FILE_OPEN_ERROR]
            /\ diag = "cannot open taskset"
            /\ ~ParsingBegun /\ ifs = 0 /\ num_lines = ToU32(0)
  /\ ParsingBegun => ~Alive(child[SchedulerChild])
  /\ child[SchedulerChild].st # "none" /\ pc = "done" => ParsingBegun
  /\ pc = "wait_scheduler" /\ ~Alive(child[SchedulerChild]) => ENABLED WaitScheduler

C10_Witness ==
  /\ pc = "count"
  /\ child[SchedulerChild].st = "exited"
  /\ child[SchedulerChild].code = 1
  /\ stat.schedule_ret_val = 0
  /\ stat.taskset_mtime > stat.schedule_mtime

(***************************************************************************)
(* C11, as claimed: a process-creation failure or an image-replacement     *)
(* failure in the scheduler step causes a group termination broadcast and  *)
(* then a launcher exit with FORK_EXECV_ERROR; the launcher does not go on *)
(* to parse the schedule file and launch tasks after the scheduler failed  *)
(* to start.                                                               *)
(***************************************************************************)
SchedulerForkFailed == diag = "forking scheduler failed"
SchedulerExecvpFailed ==
  /\ child[SchedulerChild].st = "exited"
  /\ child[SchedulerChild].code = RT_GOMP_CLUSTERING_LAUNCHER_FORK_EXECV_ERROR
ExitedWith(code) == exit = [how |-> "exit", code |-> code]

C11_AsClaimed ==
  /\ SchedulerForkFailed =>
       broadcasts >= 1 /\ ExitedWith(RT_GOMP_CLUSTERING_LAUNCHER_FORK_EXECV_ERROR)
  /\ SchedulerExecvpFailed =>
       /\ broadcasts >= 1
       /\ ~ParsingBegun
       /\ pc = "done" => ExitedWith(RT_GOMP_CLUSTERING_LAUNCHER_FORK_EXECV_ERROR)

(***************************************************************************)
(* C11, amended: a failed fork in the scheduler step makes the launcher    *)
(* exit with FORK_EXECV_ERROR at once, with no broadcast, nothing parsed   *)
(* and nothing launched; a failed execvp makes the scheduler's child exit  *)
(* with FORK_EXECV_ERROR, with no broadcast, and the launcher, which does  *)
(* not look at the child's status, goes on: it opens the schedule file,    *)
(* exits with FILE_OPEN_ERROR when there is none and parses the file that  *)
(* is there otherwise.                                                     *)
(***************************************************************************)
C11_SchedulerFailure ==
  /\ pc \in {"args", "stat", "fork_scheduler", "wait_scheduler", "open"} => broadcasts = 0
  /\ SchedulerForkFailed =>
       /\ broadcasts = 0
       /\ ExitedWith(RT_GOMP_CLUSTERING_LAUNCHER_FORK_EXECV_ERROR)
       /\ child[SchedulerChild].st = "none"
       /\ ~ParsingBegun /\ ifs = 0 /\ ~barrier.inited /\ CreatedTasks = {}
  /\ SchedulerExecvpFailed =>
       /\ \A c \in Children : Alive(child[c]) /\ broadcasts = 0 => ~child[c].sig
       /\ pc = "wait_scheduler" => ENABLED WaitScheduler
       /\ pc = "done" =>
            /\ ParsingBegun
            /\ ~SchedulerForkFailed
            /\ ~schedule_file.exists =>
                 ExitedWith(RT_GOMP_CLUSTERING_LAUNCHER_FILE_OPEN_ERROR)
            /\ schedule_file.exists => diag # "cannot open schedule"

C11_Witness ==
  /\ SchedulerExecvpFailed
  /\ CreatedTasks = 1..MaxTasks
  /\ pc = "reap"

(***************************************************************************)
(* C12: the launcher reports completion and exits with SUCCESS only after  *)
(* all N task creations succeeded and no child is left; and once all N     *)
(* tasks are created and every one of them has exited, with whatever       *)
(* status, the launcher eventually exits with SUCCESS.                     *)
(***************************************************************************)
Success == ExitedWith(RT_GOMP_CLUSTERING_LAUNCHER_SUCCESS)
AllTasksCreated == barrier.inited /\ CreatedTasks = 1..ScheduleN
AllTasksExited == \A k \in CreatedTasks : child[k].st = "exited"

C12_Completion ==
  /\ [](Success =>
         /\ diag = "all tasks finished"
         /\ AllTasksCreated
         /\ attempts = ScheduleN
         /\ NoChildren
         /\ \A k \in CreatedTasks : execv_call[k].called)
  /\ [](diag = "all tasks finished" => Success)
  /\ ((AllTasksCreated /\ AllTasksExited) ~> Success)

C12_Witness ==
  /\ Success
  /\ ScheduleN = MaxTasks
  /\ child[1].code = 1
  /\ child[MaxTasks].code = 0

(***************************************************************************)
(* C13, as claimed: a forked child whose image replacement fails, the      *)
(* scheduler's child or a task's, terminates with the FORK_EXECV error     *)
(* code and never continues executing launcher code: the barrier, the task *)
(* loop and the reap loop are the launcher's alone.                        *)
(***************************************************************************)
TaskExecvFailed(k) == execv_call[k].called /\ execv_call[k].failed
EndedWithForkExecvError(c) ==
  child[c].st = "exited" /\ child[c].code = RT_GOMP_CLUSTERING_LAUNCHER_FORK_EXECV_ERROR

\* the part about the launcher's code: a child that failed execv has ended,
\* and every fork and barrier initialization is the launcher's
ChildLeavesLauncherCode ==
  /\ \A k \in Tasks : TaskExecvFailed(k) => ~Alive(child[k])
  /\ barrier.inits <= 1
  /\ attempts <= MaxTasks

C13_AsClaimed ==
  /\ ChildLeavesLauncherCode
  /\ \A k \in Tasks : TaskExecvFailed(k) => EndedWithForkExecvError(k)

(***************************************************************************)
(* C14, as claimed: within one launcher invocation the abort broadcast is  *)
(* invoked at most once; several failures, such as two task children each  *)
(* failing execv, do not produce a second broadcast.                       *)
(***************************************************************************)
C14_AsClaimed == broadcasts <= 1

(***************************************************************************)
(* C14, amended: every process sends the broadcast once, on its own        *)
(* failure, which ends it: the launcher when a record is rejected or a     *)
(* task's fork fails, a task's child when its execv fails.  The broadcasts *)
(* of an invocation are as many as the processes that failed.              *)
(***************************************************************************)
FailedChildren == {k \in Tasks : TaskExecvFailed(k)}

C14_BroadcastPerFailure ==
  /\ broadcasts = Cardinality(FailedChildren) + (IF LauncherAborted THEN 1 ELSE 0)
  /\ \A k \in FailedChildren : child[k].st = "signaled"
  /\ LauncherAborted => exit.how = "signal"
  /\ broadcasts = 0 =>
       /\ ~sigL
       /\ \A c \in Children : ~child[c].sig /\ child[c].st # "signaled"

C14_Witness ==
  /\ broadcasts = 2
  /\ FailedChildren = {1, 2}

(***************************************************************************)
(* C15: task processes are created in the order of the schedule file, one  *)
(* per iteration of the loop: task k's process is created only after task  *)
(* k-1's, by the iteration whose index is k; and the fork of the next task *)
(* does not wait for a task already created to join the barrier or end:   *)
(* in an iteration whose record is accepted, fork is held back by nothing  *)
(* but a signal pending for the launcher, whatever the earlier tasks do.   *)
(***************************************************************************)
C15_SequentialCreation ==
  /\ [](\A k \in Tasks : Created(k) => \A j \in 1..(k - 1) : Created(j))
  /\ [][\A k \in Tasks :
          ~Created(k) /\ Created(k)' =>
             /\ pc = "loop" /\ pc' = "loop"
             /\ k = t /\ t' = t + 1
             /\ ifs' = ifs + 3
             /\ attempts' = attempts + 1
             /\ \A j \in Tasks \ {k} : child'[j] = child[j]]_vars
  /\ [](InLoop /\ ~sigL => ForkAllowed)

C15_Witness ==
  /\ child[1].st = "forked"
  /\ child[2].st = "forked"
  /\ barrier.joined = {}

(***************************************************************************)
(* C16, as claimed: an error detected before any task has been launched    *)
(* makes the launcher exit without sending any signal to the process       *)
(* group; the broadcast is sent for a parse error only when it is detected *)
(* on a later task's record, after at least one task was created.          *)
(***************************************************************************)
PreLoopErrors ==
  { "argument", "cannot open taskset", "forking scheduler failed", "cannot open schedule",
    "invalid number of lines", "schedulability improperly specified",
    "taskset not schedulable", "missing core range line", "failed to initialize barrier" }
RecordRejected == pc = "done" /\ diag \in RecordRejections

C16_AsClaimed ==
  /\ pc = "done" /\ diag \in PreLoopErrors => broadcasts = 0 /\ exit.how = "exit"
  /\ RecordRejected /\ CreatedTasks = {} => broadcasts = 0 /\ exit.how = "exit"
  /\ RecordRejected /\ broadcasts > 0 => CreatedTasks # {}

(***************************************************************************)
(* C16, amended: an error detected before the task loop (argument, file    *)
(* open, line count, verdict, core range, unschedulable, barrier           *)
(* initialization) makes the launcher exit with its code and no signal is  *)
(* sent to the group; a parse error in a task's record sends the broadcast *)
(* for every task, the first one included, when no task has been created.  *)
(***************************************************************************)
C16_BroadcastOnlyInLoop ==
  /\ pc \notin {"loop", "reap", "done"} => broadcasts = 0
  /\ pc = "done" /\ diag \in PreLoopErrors =>
       /\ broadcasts = 0
       /\ exit.how = "exit" /\ exit.code # RT_GOMP_CLUSTERING_LAUNCHER_SUCCESS
       /\ ~sigL
       /\ CreatedTasks = {}
       /\ \A c \in Children : ~child[c].sig /\ child[c].st # "signaled"
  /\ RecordRejected =>
       /\ broadcasts >= 1
       /\ exit.how = "signal"
       /\ CreatedTasks = 1..(t - 1)

C16_Witness ==
  /\ RecordRejected
  /\ t = 1
  /\ CreatedTasks = {}
  /\ broadcasts = 1
  /\ ScheduleN = MaxTasks

(***************************************************************************)
(* C17: once all N tasks are created the launcher sends no termination     *)
(* signal and has no timeout: it leaves the reap loop only when no child   *)
(* is left (or by a signal sent to it).  So when a started task has ended  *)
(* without joining the barrier, the barrier is never released, the tasks   *)
(* that joined stay blocked on it, and the launcher does not report        *)
(* completion while one of them is blocked.                                *)
(***************************************************************************)
EndedWithoutJoining(k) ==
  child[k].st \in {"exited", "signaled"} /\ k \notin barrier.joined
Blocked(k) == child[k].st = "joined"

C17_NoTimeout ==
  /\ [](pc = "reap" => ~LauncherAborted /\ CreatedTasks = 1..ScheduleN)
  /\ [][pc = "reap" =>
          \/ /\ pc' = "reap"
             /\ exit' = exit /\ diag' = diag
             /\ broadcasts' = broadcasts + Cardinality(FailedChildren') - Cardinality(FailedChildren)
          \/ /\ pc' = "done" /\ sigL /\ exit'.how = "signal" /\ child' = child
             /\ broadcasts' = broadcasts /\ diag' = diag
          \/ /\ pc' = "done" /\ NoChildren /\ Success' /\ child' = child
             /\ broadcasts' = broadcasts]_vars
  /\ []((\E k \in CreatedTasks : EndedWithoutJoining(k)) => ~barrier.released)
  /\ [][\A k \in Tasks :
          Blocked(k) /\ (\E j \in CreatedTasks : EndedWithoutJoining(j)) =>
             Blocked(k)' \/ (child[k].sig /\ child'[k].st = "signaled")]_vars
  /\ []((\E k \in Tasks : Blocked(k)) => ~Success /\ diag # "all tasks finished")
  /\ [](broadcasts > 0 => ~Success)

C17_Witness ==
  /\ pc = "reap"
  /\ child[1].st = "exited"
  /\ 1 \notin barrier.joined
  /\ Blocked(2)
  /\ broadcasts = 0

(***************************************************************************)
(* C18: validation is lazy and, per task, precedes the creation of the     *)
(* process: the record of task k is checked in iteration k, when tasks     *)
(* 1..k-1 have been forked; a task is created only when its record and the *)
(* records before it are valid; and when record k is rejected no process   *)
(* is created for task k nor for any of the tasks after it.                *)
(***************************************************************************)
RecordValid(k) ==
  k \in RecordsInFile /\ ShapeAccepted(schedule_file.content.shapes[k])

C18_LazyValidation ==
  /\ \A k \in Tasks : Created(k) => \A j \in 1..k : RecordValid(j)
  /\ pc = "loop" => CreatedTasks = 1..(t - 1) /\ attempts = t - 1 /\ ifs = 2 + 3 * (t - 1)
  /\ RecordRejected =>
       /\ ~RecordValid(t)
       /\ \A j \in 1..(t - 1) : RecordValid(j)
       /\ CreatedTasks = 1..(t - 1)
       /\ attempts = t - 1
       /\ \A j \in Tasks : j >= t => ~Created(j) /\ ~execv_call[j].called

\* task 1 is forked, record 2 is malformed and is rejected only afterwards
C18_Witness ==
  /\ RecordRejected
  /\ t = 2
  /\ Created(1)
  /\ ScheduleN = 2
  /\ RecordValid(1) /\ ~RecordValid(2)

(***************************************************************************)
(* C19: the barrier is initialized at most once per launcher invocation,   *)
(* always before the first task process is created, and never on a run     *)
(* that ends with an argument, file-open, parse (line count, verdict or    *)
(* core range) or unschedulable error; every task process created receives *)
(* the same fixed barrier name in its argument vector.                     *)
(***************************************************************************)
BarrierNameAt == 2 + num_partition_params + num_timing_params - num_skipped_timing_params
NoBarrierErrors ==
  { "argument", "cannot open taskset", "cannot open schedule",
    "invalid number of lines", "schedulability improperly specified",
    "taskset not schedulable", "missing core range line" }
NoBarrierCodes ==
  { RT_GOMP_CLUSTERING_LAUNCHER_ARGUMENT_ERROR, RT_GOMP_CLUSTERING_LAUNCHER_FILE_OPEN_ERROR,
    RT_GOMP_CLUSTERING_LAUNCHER_FILE_PARSE_ERROR,
    RT_GOMP_CLUSTERING_LAUNCHER_UNSCHEDULABLE_ERROR }

C19_BarrierLifecycle ==
  /\ barrier.inits <= 1
  /\ barrier.inited <=> barrier.inits = 1
  /\ barrier.inited <=> (pc \in {"loop", "reap"} \/ (pc = "done" /\ diag \notin PreLoopErrors))
  /\ CreatedTasks # {} \/ attempts > 0 => barrier.inited
  /\ pc = "done" /\ (diag \in NoBarrierErrors \/ (exit.how = "exit" /\ exit.code \in NoBarrierCodes)) =>
       ~barrier.inited /\ barrier.inits = 0
  /\ \A k \in Tasks :
       /\ child[k].st = "forked" => child[k].argv[2][BarrierNameAt] = barrier_name
       /\ execv_call[k].called => execv_call[k].argv[BarrierNameAt] = barrier_name

C19_Witness ==
  /\ barrier.inits = 1
  /\ execv_call[1].called /\ execv_call[2].called
  /\ execv_call[1].argv[BarrierNameAt] = execv_call[2].argv[BarrierNameAt]
  /\ execv_call[1].argv # execv_call[2].argv

(***************************************************************************)
(* C20: the schedule file being the same in the counting pass and in the   *)
(* parsing pass, the three 'missing line' branches (no line 1, no core     *)
(* range line, fewer than three lines for a task) are never taken: past    *)
(* the line count check the file has exactly 2 + 3N lines and every read   *)
(* finds its line.  A parse error past the check is one of tokens: a       *)
(* verdict that does not convert, an empty command line, a wrong number of *)
(* partition or timing tokens.                                             *)
(***************************************************************************)
PastCountCheck ==
  \/ pc \in {"schedulability", "core_range", "barrier", "loop", "reap"}
  \/ pc = "done" /\ diag \notin {"none", "argument", "cannot open taskset", "scheduling taskset",
                                  "forking scheduler failed", "cannot open schedule",
                                  "invalid number of lines"}
MissingLineErrors == {"missing core range line", "provide three lines for each task"}
TokenErrors ==
  { "schedulability improperly specified", "program name not provided",
    "too few partition parameters", "too many partition parameters",
    "too few timing parameters", "too many timing parameters" }

C20_NoMissingLine ==
  /\ diag \notin MissingLineErrors
  /\ diag = "schedulability improperly specified" =>
       Len(ScheduleLines) >= 1 /\ ~ExtractUnsigned(ScheduleLines[1]).ok
  /\ PastCountCheck =>
       /\ num_lines = ToU32(Len(ScheduleLines))
       /\ \E n \in 0..(MaxTasks + 1) :
            Len(ScheduleLines) = 2 + 3 * n /\ num_tasks = ToU32(n)
       /\ ifs <= Len(ScheduleLines)
       /\ pc = "core_range" => ifs + 1 <= Len(ScheduleLines)
       /\ InLoop => ifs + 3 <= Len(ScheduleLines)
       /\ pc = "done" /\ (RecordRejected \/
             ExitedWith(RT_GOMP_CLUSTERING_LAUNCHER_FILE_PARSE_ERROR)) => diag \in TokenErrors

C20_Witness ==
  /\ PastCountCheck
  /\ ExitedWith(RT_GOMP_CLUSTERING_LAUNCHER_FILE_PARSE_ERROR)
  /\ diag = "schedulability improperly specified"
  /\ Len(ScheduleLines) = 2 + 3 * MaxTasks
  /\ ScheduleLines[1] = << "x" >>

====
